---- MODULE Spec2Model ----
(***************************************************************************)
(* A model of todo-rs (src/main.rs): the AppState record, the task store   *)
(* operations, the deadline resolver and the key-event dispatcher          *)
(* process_key_event driven by the session loop of main.                   *)
(*                                                                         *)
(* Strings are sequences of one-character strings, Option<T> is the empty  *)
(* tuple (None) or a one-element tuple (Some(v)), a NaiveDateTime at       *)
(* 00:00:00 is the number of its day counted from a Sunday.                *)
(***************************************************************************)
EXTENDS Integers, Sequences, FiniteSets, TLC

\* ------------------------------------------------------------- bounds
\* The task list is capped at MaxTasks tasks and the input buffer at MaxLen
\* typed characters.
MaxTasks == 2
MaxLen == 1

\* The characters the user types into the buffer in Input and Edit mode.
TextChars == {"q"}

\* The days on which the session may run (0 is a Sunday, 6 a Saturday).
Days == {3}

\* The days on which deadlines are resolved: the last week of February 2024
\* and the last week of December 2024, as numbers of days.
DeadlineDays == 19773..19779 \cup 20079..20085

\* ------------------------------------------------------------- values
None == << >>
Some(v) == << v >>
is_some(o) == o # None
unwrap(o) == o[1]

Today == << "T", "o", "d", "a", "y" >>
Tomorrow == << "T", "o", "m", "o", "r", "r", "o", "w" >>
ThisWeek == << "T", "h", "i", "s", " ", "W", "e", "e", "k" >>
ThisMonth == << "T", "h", "i", "s", " ", "M", "o", "n", "t", "h" >>

Modes == {"Normal", "Input", "Edit", "DeleteConfirm", "DeadlineInput"}

\* termion::event::Key: the keys the keyboard delivers.
Char(c) == << "Char", c >>
KeyUp == << "Up" >>
KeyDown == << "Down" >>
KeyBackspace == << "Backspace" >>
KeyEsc == << "Esc" >>
Enter == Char("\n")
CommandChars == {"q", "n", "d", "e", "c", "1", "2", "3", "4", "\n"}
Keys == {Char(c) : c \in CommandChars} \cup {KeyUp, KeyDown, KeyBackspace, KeyEsc}

\* The keys drawn in a mode: every key, except that the text typed in Input
\* and Edit mode is drawn from TextChars.
KeysIn(m) ==
    IF m \in {"Input", "Edit"}
    THEN {Char(c) : c \in TextChars} \cup {Enter, KeyUp, KeyDown, KeyBackspace, KeyEsc}
    ELSE Keys

\* ------------------------------------------------------------- Task
Task_new(description, deadline) ==
    [description |-> description, completed |-> FALSE, deadline |-> deadline]

\* toggle_completed marking the task completed instead of flipping the flag.
toggle_completed_sets(task) == [task EXCEPT !.completed = TRUE]

toggle_completed(task) == [task EXCEPT !.completed = ~task.completed]

\* usize arithmetic
saturating_sub(a, b) == IF a >= b THEN a - b ELSE 0
min(a, b) == IF a <= b THEN a ELSE b

\* Vec::remove(index), indices counted from 0.
remove(ts, index) == SubSeq(ts, 1, index) \o SubSeq(ts, index + 2, Len(ts))

\* ------------------------------------------------------------- task store
\* add_task pushing the new task at the front of the list.
add_task_front(ts, description, deadline) == << Task_new(description, deadline) >> \o ts

add_task(ts, description, deadline) == Append(ts, Task_new(description, deadline))

update_task(ts, sel, description, deadline) ==
    IF is_some(sel) /\ unwrap(sel) < Len(ts)
    THEN [ts EXCEPT ![unwrap(sel) + 1] =
              [@ EXCEPT !.description = description, !.deadline = deadline]]
    ELSE ts

\* delete_task removing the last task, whatever the selection.
delete_task_last(ts, sel) ==
    IF is_some(sel) /\ unwrap(sel) < Len(ts) THEN SubSeq(ts, 1, Len(ts) - 1) ELSE ts

\* delete_task clamping the index instead of checking it.
delete_task_clamped(ts, sel) ==
    IF is_some(sel) /\ ts # << >>
    THEN remove(ts, min(unwrap(sel), Len(ts) - 1))
    ELSE ts

delete_task(ts, sel) ==
    IF is_some(sel) /\ unwrap(sel) < Len(ts) THEN remove(ts, unwrap(sel)) ELSE ts

\* ------------------------------------------------------------- calendar
\* A NaiveDate is the number of its day, day 0 being Sunday 1970-01-04. The
\* proleptic Gregorian calendar turns a date into that number and back.
days_from_civil(y, m, d) ==
    LET yy == IF m <= 2 THEN y - 1 ELSE y
        era == yy \div 400
        yoe == yy - era * 400
        mp == IF m > 2 THEN m - 3 ELSE m + 9
        doy == (153 * mp + 2) \div 5 + d - 1
        doe == yoe * 365 + yoe \div 4 - yoe \div 100 + doy
    IN  era * 146097 + doe - 719468 - 3

civil_from_days(n) ==
    LET z == n + 3 + 719468
        era == z \div 146097
        doe == z - era * 146097
        yoe == (doe - doe \div 1460 + doe \div 36524 - doe \div 146096) \div 365
        doy == doe - (365 * yoe + yoe \div 4 - yoe \div 100)
        mp == (5 * doy + 2) \div 153
        d == doy - (153 * mp + 2) \div 5 + 1
        m == IF mp < 10 THEN mp + 3 ELSE mp - 9
        y == yoe + era * 400 + (IF m <= 2 THEN 1 ELSE 0)
    IN  << y, m, d >>

is_leap_year(y) == (y % 4 = 0 /\ y % 100 # 0) \/ y % 400 = 0

days_in_month(y, m) ==
    IF m = 2 THEN (IF is_leap_year(y) THEN 29 ELSE 28)
    ELSE IF m \in {4, 6, 9, 11} THEN 30 ELSE 31

\* ------------------------------------------------------------- deadlines
\* num_days_from_sunday counting from Monday.
num_days_from_monday(day) == (day + 6) % 7

\* Weekday::num_days_from_sunday of a day.
num_days_from_sunday(day) == day % 7

\* NaiveDate::with_day(0): day 0 is no day of a month, chrono answers None.
with_day_0(day) == None

calculate_deadline(option, now) ==
    CASE option = Today -> Some(now)
      [] option = Tomorrow -> Some(now + 1)
      [] option = ThisWeek -> Some(now + (6 - num_days_from_sunday(now)))
      [] option = ThisMonth ->
            LET first_day_next_month ==
                    IF is_some(with_day_0(now))
                    THEN Some(unwrap(with_day_0(now)) + 1)
                    ELSE None
            IN  IF is_some(first_day_next_month)
                THEN Some(unwrap(first_day_next_month) - 1)
                ELSE None
      [] OTHER -> None

\* ------------------------------------------------------------- state
VARIABLES
    tasks,             \* AppState.tasks
    input,             \* AppState.input
    mode,              \* AppState.mode
    selected_task,     \* AppState.selected_task
    temp_description,  \* AppState.temp_description
    setting_deadline,  \* AppState.setting_deadline
    today,             \* the date chrono::Local::now() reads
    pc,                \* main: "loop", "stopped" (q broke the loop), "panicked"
    key,               \* the key the last call of process_key_event handled
    flow,              \* history: how and from what the pending add/edit began
    prev,              \* history: the state on entry to the last call
    file,              \* tasks.json: missing, malformed, or a JSON array
    term,              \* the terminal: initialised or not, restoration steps done
    load_result,       \* what load_tasks returned to main, the file it found
                       \* and how its file operations went
    saved              \* history: the list save_tasks wrote, until the next key

app == << tasks, input, mode, selected_task, temp_description, setting_deadline >>
vars == << tasks, input, mode, selected_task, temp_description, setting_deadline,
           today, pc, key, flow, prev, file, term, load_result, saved >>

NoKey == << "None" >>
NoFlow == [origin |-> "None", tasks |-> << >>, buffer |-> << >>]

\* The state a call of process_key_event starts from.
Entry ==
    [tasks |-> tasks, input |-> input, mode |-> mode, selected_task |-> selected_task,
     temp_description |-> temp_description, flow |-> flow]

\* tasks.json
Missing == << "missing" >>
Malformed == << "malformed" >>
Json(array) == << "json", array >>

\* The terminal as initialize_terminal leaves it, and before that.
NoTerminal == [initialised |-> FALSE, restored |-> << >>]
RawTerminal == [initialised |-> TRUE, restored |-> << >>]

\* AppState::new(), before the first key.
AppState_new ==
    /\ tasks = << >>
    /\ input = << >>
    /\ mode = "Normal"
    /\ selected_task = Some(0)
    /\ temp_description = << >>
    /\ setting_deadline = FALSE
    /\ key = NoKey
    /\ flow = NoFlow
    /\ prev = [tasks |-> << >>, input |-> << >>, mode |-> "Normal",
               selected_task |-> Some(0), temp_description |-> << >>, flow |-> NoFlow]

\* main has initialised the terminal, found no tasks.json and written an empty
\* one, and enters the loop.
EnterLoop ==
    /\ AppState_new
    /\ pc = "loop"
    /\ file = Json(<< >>)
    /\ term = RawTerminal
    /\ load_result = [result |-> "Ok", found |-> Missing, io |-> "ok"]
    /\ saved = None

Init == EnterLoop /\ today \in Days

\* ------------------------------------------------------------- key events
\* What every call has in common: the loop is running, and the call records
\* the key it handled and the state it started from.
Handled(k) ==
    /\ pc = "loop"
    /\ key' = k
    /\ prev' = Entry
    /\ saved' = None
    /\ UNCHANGED << today, setting_deadline, file, term, load_result >>

\* Mode::Normal, Key::Char('q'): return false, the loop breaks.
NormalQuit(k) ==
    /\ mode = "Normal" /\ k = Char("q")
    /\ pc' = "stopped"
    /\ UNCHANGED << app, flow >>
    /\ Handled(k)

\* Mode::Normal, Key::Char('n').
NormalNew(k) ==
    /\ mode = "Normal" /\ k = Char("n")
    /\ mode' = "Input"
    /\ input' = << >>
    /\ flow' = [origin |-> "Input", tasks |-> tasks, buffer |-> << >>]
    /\ UNCHANGED << tasks, selected_task, temp_description, pc >>
    /\ Handled(k)

\* Mode::Normal, Key::Char('d') if selected_task.is_some().
NormalDelete(k) ==
    /\ mode = "Normal" /\ k = Char("d") /\ is_some(selected_task)
    /\ mode' = "DeleteConfirm"
    /\ UNCHANGED << tasks, input, selected_task, temp_description, pc, flow >>
    /\ Handled(k)

\* The index expression tasks[selected_task.unwrap()] is in bounds.
index_in_bounds(ts, sel) == unwrap(sel) < Len(ts)

\* Mode::Normal, Key::Char('e') if selected_task.is_some(): the task is indexed.
NormalEdit(k) ==
    /\ mode = "Normal" /\ k = Char("e") /\ is_some(selected_task)
    /\ index_in_bounds(tasks, selected_task)
    /\ mode' = "Edit"
    /\ input' = tasks[unwrap(selected_task) + 1].description
    /\ flow' = [origin |-> "Edit", tasks |-> tasks, buffer |-> << >>]
    /\ UNCHANGED << tasks, selected_task, temp_description, pc >>
    /\ Handled(k)

\* The same arm when the index is out of bounds: the indexing panics after
\* mode was set, and the process aborts.
NormalEditPanic(k) ==
    /\ mode = "Normal" /\ k = Char("e") /\ is_some(selected_task)
    /\ ~index_in_bounds(tasks, selected_task)
    /\ mode' = "Edit"
    /\ pc' = "panicked"
    /\ UNCHANGED << tasks, input, selected_task, temp_description, flow >>
    /\ Handled(k)

\* Mode::Normal, Key::Char('c') if selected_task.is_some().
NormalComplete(k) ==
    /\ mode = "Normal" /\ k = Char("c") /\ is_some(selected_task)
    /\ tasks' = IF unwrap(selected_task) < Len(tasks)
                THEN [tasks EXCEPT ![unwrap(selected_task) + 1] = toggle_completed(@)]
                ELSE tasks
    /\ UNCHANGED << input, mode, selected_task, temp_description, pc, flow >>
    /\ Handled(k)

\* Key::Up: the new selection.
move_up(sel) == IF is_some(sel) THEN Some(saturating_sub(unwrap(sel), 1)) ELSE sel

\* move_down without the clamp to the last index.
move_down_unclamped(sel, len) == IF is_some(sel) THEN Some(unwrap(sel) + 1) ELSE sel

\* Key::Down: the new selection.
move_down(sel, len) ==
    IF is_some(sel) THEN Some(min(unwrap(sel) + 1, saturating_sub(len, 1))) ELSE sel

\* Mode::Normal, Key::Up.
NormalUp(k) ==
    /\ mode = "Normal" /\ k = KeyUp
    /\ selected_task' = move_up(selected_task)
    /\ UNCHANGED << tasks, input, mode, temp_description, pc, flow >>
    /\ Handled(k)

\* Mode::Normal, Key::Down.
NormalDown(k) ==
    /\ mode = "Normal" /\ k = KeyDown
    /\ selected_task' = move_down(selected_task, Len(tasks))
    /\ UNCHANGED << tasks, input, mode, temp_description, pc, flow >>
    /\ Handled(k)

\* Mode::Normal, every other key (and d, e, c without a selection).
NormalOther(k) ==
    /\ mode = "Normal"
    /\ \/ k \notin {Char("q"), Char("n"), Char("d"), Char("e"), Char("c"), KeyUp, KeyDown}
       \/ k \in {Char("d"), Char("e"), Char("c")} /\ ~is_some(selected_task)
    /\ UNCHANGED << app, pc, flow >>
    /\ Handled(k)

\* DeleteConfirmDelete pulling the selection back into the shortened list.
DeleteConfirmDelete_moves_selection(k) ==
    /\ mode = "DeleteConfirm" /\ k = Char("d")
    /\ tasks' = delete_task(tasks, selected_task)
    /\ selected_task' = Some(min(unwrap(selected_task), saturating_sub(Len(tasks'), 1)))
    /\ mode' = "Normal"
    /\ UNCHANGED << input, temp_description, pc, flow >>
    /\ Handled(k)

\* Mode::DeleteConfirm, Key::Char('d').
DeleteConfirmDelete(k) ==
    /\ mode = "DeleteConfirm" /\ k = Char("d")
    /\ tasks' = delete_task(tasks, selected_task)
    /\ mode' = "Normal"
    /\ UNCHANGED << input, selected_task, temp_description, pc, flow >>
    /\ Handled(k)

\* DeleteConfirmCancel staying in DeleteConfirm mode on keys that are no
\* characters.
DeleteConfirmCancel_stays(k) ==
    /\ mode = "DeleteConfirm" /\ k # Char("d")
    /\ mode' = IF k[1] = "Char" THEN "Normal" ELSE "DeleteConfirm"
    /\ UNCHANGED << tasks, input, selected_task, temp_description, pc, flow >>
    /\ Handled(k)

\* DeleteConfirmCancel taking Enter for a confirmation too.
DeleteConfirmCancel_enter_deletes(k) ==
    /\ mode = "DeleteConfirm" /\ k # Char("d")
    /\ tasks' = IF k = Enter THEN delete_task(tasks, selected_task) ELSE tasks
    /\ mode' = "Normal"
    /\ UNCHANGED << input, selected_task, temp_description, pc, flow >>
    /\ Handled(k)

\* Mode::DeleteConfirm, every other key.
DeleteConfirmCancel(k) ==
    /\ mode = "DeleteConfirm" /\ k # Char("d")
    /\ mode' = "Normal"
    /\ UNCHANGED << tasks, input, selected_task, temp_description, pc, flow >>
    /\ Handled(k)

\* TextEnter leaving the typed text in the input buffer.
TextEnter_keeps_input(k) ==
    /\ mode \in {"Input", "Edit"} /\ k = Enter
    /\ temp_description' = input
    /\ mode' = "DeadlineInput"
    /\ flow' = [flow EXCEPT !.buffer = input]
    /\ UNCHANGED << input, tasks, selected_task, pc >>
    /\ Handled(k)

\* TextEnter keeping a description that is still pending from an earlier flow.
TextEnter_keeps_pending(k) ==
    /\ mode \in {"Input", "Edit"} /\ k = Enter
    /\ temp_description' = IF temp_description = << >> THEN input ELSE temp_description
    /\ input' = << >>
    /\ mode' = "DeadlineInput"
    /\ flow' = [flow EXCEPT !.buffer = input]
    /\ UNCHANGED << tasks, selected_task, pc >>
    /\ Handled(k)

\* Mode::Input | Mode::Edit, Key::Char('\n').
TextEnter(k) ==
    /\ mode \in {"Input", "Edit"} /\ k = Enter
    /\ IF ~setting_deadline
       THEN /\ temp_description' = input
            /\ input' = << >>
            /\ mode' = "DeadlineInput"
            /\ flow' = [flow EXCEPT !.buffer = input]
       ELSE UNCHANGED << temp_description, input, mode, flow >>
    /\ UNCHANGED << tasks, selected_task, pc >>
    /\ Handled(k)

\* Mode::Input | Mode::Edit, Key::Char(c): the buffer holds at most MaxLen
\* characters.
TextChar(k) ==
    /\ mode \in {"Input", "Edit"} /\ k[1] = "Char" /\ k # Enter
    /\ Len(input) < MaxLen
    /\ input' = Append(input, k[2])
    /\ UNCHANGED << tasks, mode, selected_task, temp_description, pc, flow >>
    /\ Handled(k)

\* String::pop.
pop(s) == IF s = << >> THEN s ELSE SubSeq(s, 1, Len(s) - 1)

\* Mode::Input | Mode::Edit, Key::Backspace.
TextBackspace(k) ==
    /\ mode \in {"Input", "Edit"} /\ k = KeyBackspace
    /\ input' = pop(input)
    /\ UNCHANGED << tasks, mode, selected_task, temp_description, pc, flow >>
    /\ Handled(k)

\* Mode::Input | Mode::Edit, every other key.
TextOther(k) ==
    /\ mode \in {"Input", "Edit"} /\ k[1] # "Char" /\ k # KeyBackspace
    /\ UNCHANGED << app, pc, flow >>
    /\ Handled(k)

\* The keyword a digit key selects in DeadlineInput mode.
keyword(k) ==
    CASE k = Char("1") -> Today
      [] k = Char("2") -> Tomorrow
      [] k = Char("3") -> ThisWeek
      [] k = Char("4") -> ThisMonth

\* Mode::DeadlineInput, Key::Char('1') .. Key::Char('4').
DeadlineKeyword(k) ==
    /\ mode = "DeadlineInput" /\ k \in {Char("1"), Char("2"), Char("3"), Char("4")}
    /\ input' = keyword(k)
    /\ UNCHANGED << tasks, mode, selected_task, temp_description, pc, flow >>
    /\ Handled(k)

\* DeadlineAbandon keeping the pending description as a new task.
DeadlineAbandon_adds(k) ==
    /\ mode = "DeadlineInput" /\ k \in {Char("q"), KeyEsc}
    /\ tasks' = add_task(tasks, temp_description, None)
    /\ mode' = "Normal"
    /\ flow' = NoFlow
    /\ UNCHANGED << input, selected_task, temp_description, pc >>
    /\ Handled(k)

\* Mode::DeadlineInput, Key::Char('q') | Key::Esc.
DeadlineAbandon(k) ==
    /\ mode = "DeadlineInput" /\ k \in {Char("q"), KeyEsc}
    /\ mode' = "Normal"
    /\ flow' = NoFlow
    /\ UNCHANGED << tasks, input, selected_task, temp_description, pc >>
    /\ Handled(k)

\* The task list Enter commits in DeadlineInput mode: m is app_state.mode as
\* the handler reads it.
commit(ts, m, sel, description, deadline) ==
    IF m = "Edit"
    THEN update_task(ts, sel, description, deadline)
    ELSE add_task(ts, description, deadline)

\* Mode::DeadlineInput, Key::Char('\n'): the list holds at most MaxTasks tasks.
DeadlineEnter(k) ==
    /\ mode = "DeadlineInput" /\ k = Enter
    /\ Len(commit(tasks, mode, selected_task, temp_description,
                  calculate_deadline(input, today))) <= MaxTasks
    /\ tasks' = commit(tasks, mode, selected_task, temp_description,
                       calculate_deadline(input, today))
    /\ temp_description' = << >>
    /\ mode' = "Normal"
    /\ flow' = NoFlow
    /\ UNCHANGED << input, selected_task, pc >>
    /\ Handled(k)

\* Mode::DeadlineInput, every other key.
DeadlineOther(k) ==
    /\ mode = "DeadlineInput"
    /\ k \notin {Char("1"), Char("2"), Char("3"), Char("4"), Char("q"), KeyEsc, Enter}
    /\ UNCHANGED << app, pc, flow >>
    /\ Handled(k)

\* main: one turn of the loop hands the key read from stdin to
\* process_key_event, which takes the arm of the mode and the key.
Next ==
    \/ \E k \in KeysIn(mode) : NormalQuit(k)
    \/ \E k \in KeysIn(mode) : NormalNew(k)
    \/ \E k \in KeysIn(mode) : NormalDelete(k)
    \/ \E k \in KeysIn(mode) : NormalEdit(k)
    \/ \E k \in KeysIn(mode) : NormalEditPanic(k)
    \/ \E k \in KeysIn(mode) : NormalComplete(k)
    \/ \E k \in KeysIn(mode) : NormalUp(k)
    \/ \E k \in KeysIn(mode) : NormalDown(k)
    \/ \E k \in KeysIn(mode) : NormalOther(k)
    \/ \E k \in KeysIn(mode) : DeleteConfirmDelete(k)
    \/ \E k \in KeysIn(mode) : DeleteConfirmCancel(k)
    \/ \E k \in KeysIn(mode) : TextEnter(k)
    \/ \E k \in KeysIn(mode) : TextChar(k)
    \/ \E k \in KeysIn(mode) : TextBackspace(k)
    \/ \E k \in KeysIn(mode) : TextOther(k)
    \/ \E k \in KeysIn(mode) : DeadlineKeyword(k)
    \/ \E k \in KeysIn(mode) : DeadlineAbandon(k)
    \/ \E k \in KeysIn(mode) : DeadlineEnter(k)
    \/ \E k \in KeysIn(mode) : DeadlineOther(k)

Spec == Init /\ [][Next]_vars

\* ------------------------------------------------------------- deadlines
\* Add flows with every keyword, on each of the days of DeadlineDays.
DeadlineKeys == {Char("n"), Enter, Char("1"), Char("2"), Char("3"), Char("4")}

InitDeadline == EnterLoop /\ today \in DeadlineDays

NextDeadline ==
    \/ \E k \in DeadlineKeys : NormalNew(k)
    \/ \E k \in DeadlineKeys : TextEnter(k)
    \/ \E k \in DeadlineKeys : DeadlineKeyword(k)
    \/ \E k \in DeadlineKeys : DeadlineEnter(k)

SpecDeadline == InitDeadline /\ [][NextDeadline]_vars

\* ------------------------------------------------------------- persistence
\* A NaiveDateTime of the model is the midnight of a day. Its text is the
\* sequence of the six numbers that "%Y-%m-%d %H:%M:%S" prints.
format(day) ==
    LET c == civil_from_days(day)
    IN  << c[1], c[2], c[3], 0, 0, 0 >>

\* NaiveDateTime::parse_from_str: none for a text that names no date and time.
parse_from_str(str) ==
    IF /\ str[2] \in 1..12
       /\ str[3] \in 1..days_in_month(str[1], str[2])
       /\ str[4] \in 0..23
       /\ str[5] \in 0..59
       /\ str[6] \in 0..59
    THEN Some(days_from_civil(str[1], str[2], str[3]))
    ELSE None

Ok(v) == << "Ok", v >>
Err == << "Err" >>

serialize_date(date) ==
    IF is_some(date) THEN Some(format(unwrap(date))) ELSE None

deserialize_date(s) ==
    IF is_some(s)
    THEN (IF is_some(parse_from_str(unwrap(s)))
          THEN Ok(parse_from_str(unwrap(s)))
          ELSE Err)
    ELSE Ok(None)

\* #[derive(Serialize, Deserialize)] on Task: a task as a JSON object and back.
serialize(task) ==
    [description |-> task.description, completed |-> task.completed,
     deadline |-> serialize_date(task.deadline)]

deserialize(object) ==
    LET d == deserialize_date(object.deadline)
    IN  IF d[1] = "Err"
        THEN Err
        ELSE Ok([description |-> object.description, completed |-> object.completed,
                 deadline |-> d[2]])

\* serde_json::to_writer and serde_json::from_reader on a list of tasks.
to_writer(ts) == Json([i \in 1..Len(ts) |-> serialize(ts[i])])

from_reader(f) ==
    IF f[1] # "json"
    THEN Err
    ELSE LET rs == [i \in 1..Len(f[2]) |-> deserialize(f[2][i])]
         IN  IF \E i \in 1..Len(rs) : rs[i][1] = "Err"
             THEN Err
             ELSE Ok([i \in 1..Len(rs) |-> rs[i][2]])

\* save_tasks writing every task, completed ones included.
all_tasks(ts) == ts

\* self.tasks.iter().filter(|t| !t.completed)
active_tasks(ts) == SelectSeq(ts, LAMBDA t : ~t.completed)

\* ------------------------------------------------------------- main
\* The day on which the runs of main take place: 2024-02-29.
MainDays == {19779}

\* The tasks.json a first run may find: none, one that is no JSON, an empty
\* array, arrays of one and two tasks, and an array whose deadline names no date.
InitialFiles ==
    LET open == [description |-> << "q" >>, completed |-> FALSE,
                 deadline |-> Some(<< 2024, 2, 29, 0, 0, 0 >>)]
        done == [description |-> << >>, completed |-> TRUE, deadline |-> None]
        bad == [description |-> << "q" >>, completed |-> FALSE,
                deadline |-> Some(<< 2023, 2, 29, 0, 0, 0 >>)]
    IN  { Missing, Malformed, Json(<< >>), Json(<< open >>), Json(<< done, open >>),
          Json(<< bad >>) }

\* The keys drawn in a run of main.
MainKeysIn(m) ==
    CASE m \in {"Input", "Edit"} -> {Char("q"), Enter}
      [] m = "DeadlineInput" -> {Char("1"), Enter}
      [] OTHER -> {Char("q"), Char("n"), Char("e"), Char("c"), KeyDown}

NotLoaded == [result |-> "None", found |-> Missing, io |-> "ok"]

\* main is about to call initialize_terminal.
InitMain ==
    /\ AppState_new
    /\ pc = "start"
    /\ file \in InitialFiles
    /\ term = NoTerminal
    /\ load_result = NotLoaded
    /\ saved = None
    /\ today \in MainDays

\* let mut terminal = initialize_terminal()?
initialize_terminal(ok) ==
    /\ pc = "start"
    /\ term' = IF ok THEN RawTerminal ELSE NoTerminal
    /\ pc' = IF ok THEN "load" ELSE "exited_err"
    /\ UNCHANGED << app, today, key, flow, prev, file, load_result, saved >>

\* load_tasks aborting the program when it fails.
load_tasks_aborts(io) ==
    /\ pc = "load"
    /\ io \in (IF file = Missing
               THEN {"ok", "create_failed", "write_failed"}
               ELSE {"ok", "open_failed"})
    /\ LET r == from_reader(file)
           result == IF io = "ok" /\ (file = Missing \/ r[1] = "Ok") THEN "Ok" ELSE "Err"
       IN  /\ load_result' = [result |-> result, found |-> file, io |-> io]
           /\ tasks' = IF file # Missing /\ io = "ok" /\ r[1] = "Ok" THEN r[2] ELSE tasks
           /\ file' = CASE file = Missing /\ io = "ok" -> to_writer(<< >>)
                         [] file = Missing /\ io = "write_failed" -> Malformed
                         [] OTHER -> file
           /\ pc' = IF result = "Ok" THEN "loop" ELSE "exited_err"
    /\ UNCHANGED << input, mode, selected_task, temp_description, setting_deadline,
                    today, key, flow, prev, term, saved >>

\* if let Err(e) = app_state.load_tasks("tasks.json") { eprintln!(..) }: the
\* file operations of load_tasks go as io says; main goes on to the loop
\* whatever load_tasks returns. A file created and not written is left empty,
\* which is no JSON.
load_tasks(io) ==
    /\ pc = "load"
    /\ io \in (IF file = Missing
               THEN {"ok", "create_failed", "write_failed"}
               ELSE {"ok", "open_failed"})
    /\ LET r == from_reader(file)
           result == IF io = "ok" /\ (file = Missing \/ r[1] = "Ok") THEN "Ok" ELSE "Err"
       IN  /\ load_result' = [result |-> result, found |-> file, io |-> io]
           /\ tasks' = IF file # Missing /\ io = "ok" /\ r[1] = "Ok" THEN r[2] ELSE tasks
           /\ file' = CASE file = Missing /\ io = "ok" -> to_writer(<< >>)
                         [] file = Missing /\ io = "write_failed" -> Malformed
                         [] OTHER -> file
    /\ pc' = "loop"
    /\ UNCHANGED << input, mode, selected_task, temp_description, setting_deadline,
                    today, key, flow, prev, term, saved >>

\* terminal.draw(..)? failing: main returns the error.
draw_fails ==
    /\ pc = "loop"
    /\ pc' = "exited_err"
    /\ UNCHANGED << app, today, key, flow, prev, file, term, load_result, saved >>

\* app_state.save_tasks("tasks.json")? after the loop has broken. File::create
\* truncates the file, so a failed write leaves it no JSON.
save_tasks(io) ==
    /\ pc = "stopped"
    /\ io \in {"ok", "create_failed", "write_failed"}
    /\ file' = CASE io = "ok" -> to_writer(active_tasks(tasks))
                  [] io = "write_failed" -> Malformed
                  [] OTHER -> file
    /\ saved' = IF io = "ok" THEN Some(tasks) ELSE saved
    /\ pc' = IF io = "ok" THEN "clear" ELSE "exited_err"
    /\ UNCHANGED << app, today, key, flow, prev, term, load_result >>

\* One of terminal.clear()?, terminal.set_cursor(0, 0)?, terminal.show_cursor()?
\* at the end of main: at is the step, then the next one.
restore(at, then, ok) ==
    /\ pc = at
    /\ term' = IF ok THEN [term EXCEPT !.restored = Append(@, at)] ELSE term
    /\ pc' = IF ok THEN then ELSE "exited_err"
    /\ UNCHANGED << app, today, key, flow, prev, file, load_result, saved >>

clear(ok) == restore("clear", "set_cursor", ok)
set_cursor(ok) == restore("set_cursor", "show_cursor", ok)
show_cursor(ok) == restore("show_cursor", "exited_ok", ok)

\* The ways main ends: Ok(()), an error returned by ?, a panic.
Exits == {"exited_ok", "exited_err", "panicked"}

\* The program is run again: a new terminal and AppState, the same tasks.json.
Relaunch ==
    /\ pc \in Exits
    /\ pc' = "start"
    /\ tasks' = << >>
    /\ input' = << >>
    /\ mode' = "Normal"
    /\ selected_task' = Some(0)
    /\ temp_description' = << >>
    /\ setting_deadline' = FALSE
    /\ key' = NoKey
    /\ flow' = NoFlow
    /\ prev' = [tasks |-> << >>, input |-> << >>, mode |-> "Normal",
                selected_task |-> Some(0), temp_description |-> << >>, flow |-> NoFlow]
    /\ term' = NoTerminal
    /\ load_result' = NotLoaded
    /\ UNCHANGED << today, file, saved >>

NextMain ==
    \/ \E ok \in BOOLEAN : initialize_terminal(ok)
    \/ \E io \in {"ok", "create_failed", "write_failed", "open_failed"} : load_tasks(io)
    \/ draw_fails
    \/ \E k \in MainKeysIn(mode) : NormalQuit(k)
    \/ \E k \in MainKeysIn(mode) : NormalNew(k)
    \/ \E k \in MainKeysIn(mode) : NormalEdit(k)
    \/ \E k \in MainKeysIn(mode) : NormalEditPanic(k)
    \/ \E k \in MainKeysIn(mode) : NormalComplete(k)
    \/ \E k \in MainKeysIn(mode) : NormalDown(k)
    \/ \E k \in MainKeysIn(mode) : TextEnter(k)
    \/ \E k \in MainKeysIn(mode) : TextChar(k)
    \/ \E k \in MainKeysIn(mode) : DeadlineKeyword(k)
    \/ \E k \in MainKeysIn(mode) : DeadlineEnter(k)
    \/ \E io \in {"ok", "create_failed", "write_failed"} : save_tasks(io)
    \/ \E ok \in BOOLEAN : clear(ok)
    \/ \E ok \in BOOLEAN : set_cursor(ok)
    \/ \E ok \in BOOLEAN : show_cursor(ok)
    \/ Relaunch

SpecMain == InitMain /\ [][NextMain]_vars

\* ------------------------------------------------------------- claims
\* prev and key make a transition readable in the state it leads to: the last
\* call of process_key_event started in prev and handled key.
LastCall(m, k) == key = k /\ prev.mode = m
Clamp(x, lo, hi) == IF x < lo THEN lo ELSE IF x > hi THEN hi ELSE x
InRange(sel, ts) == is_some(sel) /\ unwrap(sel) < Len(ts)

\* C1: whenever the task list is non-empty, selected_task is an index of it.
C1_SelectionInRange == tasks # << >> => InRange(selected_task, tasks)

\* C2: Enter in DeadlineInput mode, in a flow that `e` started, overwrites the
\* selected task's description with the buffer of the first Enter and its
\* deadline with the resolved deadline, keeps the number of tasks and returns
\* to Normal mode.
C2_EditFlowUpdates ==
    (LastCall("DeadlineInput", Enter) /\ prev.flow.origin = "Edit") =>
        /\ mode = "Normal"
        /\ Len(tasks) = Len(prev.tasks)
        /\ InRange(selected_task, tasks)
        /\ tasks[unwrap(selected_task) + 1].description = prev.flow.buffer
        /\ tasks[unwrap(selected_task) + 1].deadline = calculate_deadline(prev.input, today)

\* C3: no key event fails on an out-of-range access to the task list, and e in
\* Normal mode either enters Edit mode with the selected task's description as
\* input or changes nothing.
C3_EditNeverFails ==
    /\ pc # "panicked"
    /\ LastCall("Normal", Char("e")) =>
          \/ /\ mode = "Edit"
             /\ InRange(selected_task, tasks)
             /\ input = tasks[unwrap(selected_task) + 1].description
          \/ /\ mode = "Normal"
             /\ input = prev.input

\* C4: q or Escape in DeadlineInput mode returns to Normal mode with the task
\* list as it was before the n or e that started the flow.
C4_AbandonKeepsTasks ==
    (prev.mode = "DeadlineInput" /\ key \in {Char("q"), KeyEsc}) =>
        /\ mode = "Normal"
        /\ tasks = prev.flow.tasks
        /\ pc = "loop"

\* C4 witness: an edit flow with a changed description and a chosen keyword
\* is abandoned with q.
C4_Witness ==
    /\ LastCall("DeadlineInput", Char("q"))
    /\ prev.flow.origin = "Edit"
    /\ prev.input = Today
    /\ InRange(selected_task, tasks)
    /\ prev.flow.buffer # tasks[unwrap(selected_task) + 1].description

\* C5: Enter in DeadlineInput mode, in a flow that `n` started, appends one
\* task, not completed, described by the buffer typed before the first Enter,
\* after the tasks the list held when the flow began, which it leaves as they
\* were.
C5_AddFlowAppends ==
    (LastCall("DeadlineInput", Enter) /\ prev.flow.origin = "Input") =>
        /\ Len(tasks) = Len(prev.flow.tasks) + 1
        /\ SubSeq(tasks, 1, Len(tasks) - 1) = prev.flow.tasks
        /\ tasks[Len(tasks)].completed = FALSE
        /\ tasks[Len(tasks)].description = prev.flow.buffer

\* C5 witness: an add flow with a typed description and a keyword has appended
\* a task behind a completed one.
C5_Witness ==
    /\ LastCall("DeadlineInput", Enter)
    /\ prev.flow.origin = "Input"
    /\ prev.flow.buffer # << >>
    /\ prev.input = Tomorrow
    /\ Len(tasks) = 2
    /\ tasks[1].completed
    /\ tasks[1].description # tasks[2].description

\* C6: d in DeleteConfirm mode with selection i in range removes the task at
\* index i and no other: tasks below i stay, tasks above i move down by one,
\* and the mode is Normal.
C6_DeleteRemovesSelected ==
    (LastCall("DeleteConfirm", Char("d")) /\ InRange(prev.selected_task, prev.tasks)) =>
        LET i == unwrap(prev.selected_task) IN
        /\ mode = "Normal"
        /\ Len(tasks) = Len(prev.tasks) - 1
        /\ \A j \in 1..Len(tasks) :
              tasks[j] = IF j <= i THEN prev.tasks[j] ELSE prev.tasks[j + 1]

\* C6 witness: the first of two different tasks has been deleted.
C6_Witness ==
    /\ LastCall("DeleteConfirm", Char("d"))
    /\ prev.selected_task = Some(0)
    /\ Len(prev.tasks) = 2
    /\ prev.tasks[1] # prev.tasks[2]
    /\ Len(tasks) = 1

\* C7: every key but d in DeleteConfirm mode returns to Normal mode and leaves
\* the task list and the selection as they were.
C7_CancelKeepsTasks ==
    (prev.mode = "DeleteConfirm" /\ key # Char("d")) =>
        /\ mode = "Normal"
        /\ tasks = prev.tasks
        /\ selected_task = prev.selected_task

\* C7 witness: Enter has cancelled the deletion of a selected task.
C7_Witness ==
    /\ LastCall("DeleteConfirm", Enter)
    /\ InRange(prev.selected_task, prev.tasks)
    /\ mode = "Normal"

\* C8: d in DeleteConfirm mode with an empty list or a selection out of range
\* changes no task, does not fail and returns to Normal mode.
C8_DeleteOutOfRangeNoOp ==
    (LastCall("DeleteConfirm", Char("d")) /\ ~InRange(prev.selected_task, prev.tasks)) =>
        /\ tasks = prev.tasks
        /\ mode = "Normal"
        /\ pc = "loop"

\* C8 witness: d, d with the selection past the end of a non-empty list.
C8_Witness ==
    /\ LastCall("DeleteConfirm", Char("d"))
    /\ prev.tasks # << >>
    /\ ~InRange(prev.selected_task, prev.tasks)
    /\ mode = "Normal"

\* C9: every call returns true (the loop goes on), but q in Normal mode, which
\* returns false and changes no task, selection, mode or buffer.
C9_OnlyNormalQuitStops ==
    key # NoKey =>
        IF LastCall("Normal", Char("q"))
        THEN /\ pc = "stopped"
             /\ tasks = prev.tasks
             /\ selected_task = prev.selected_task
             /\ mode = prev.mode
             /\ input = prev.input
             /\ temp_description = prev.temp_description
        ELSE pc = "loop"

\* C10: Up and Down in Normal mode clamp the moved selection to [0, len-1],
\* and leave 0 selected on an empty list.
C10_MoveClamps ==
    (prev.mode = "Normal" /\ key \in {KeyUp, KeyDown}) =>
        LET len == Len(prev.tasks)
            old == unwrap(prev.selected_task)
            delta == IF key = KeyUp THEN -1 ELSE 1
        IN  /\ is_some(selected_task)
            /\ len = 0 => unwrap(selected_task) = 0
            /\ len > 0 => unwrap(selected_task) = Clamp(old + delta, 0, len - 1)

\* C10 witness: Down pressed with the selection past the end of the list.
C10_Witness ==
    /\ LastCall("Normal", KeyDown)
    /\ prev.tasks # << >>
    /\ unwrap(prev.selected_task) = Len(prev.tasks)
    /\ unwrap(selected_task) = Len(tasks) - 1

\* C11: c in Normal mode on a selection in range negates the selected task's
\* completed flag and changes nothing else, so that a second c pressed right
\* after it gives back the list of before the first; with an empty list or a
\* selection out of range c changes nothing.
C11_ToggleStep ==
    LastCall("Normal", Char("c")) =>
        /\ mode = "Normal"
        /\ selected_task = prev.selected_task
        /\ input = prev.input
        /\ temp_description = prev.temp_description
        /\ Len(tasks) = Len(prev.tasks)
        /\ \A j \in 1..Len(tasks) :
              IF j = unwrap(prev.selected_task) + 1
              THEN /\ tasks[j].completed = ~prev.tasks[j].completed
                   /\ tasks[j].description = prev.tasks[j].description
                   /\ tasks[j].deadline = prev.tasks[j].deadline
              ELSE tasks[j] = prev.tasks[j]
C11_TogglePair ==
    (LastCall("Normal", Char("c")) /\ key' = Char("c")) => tasks' = prev.tasks
C11_ToggleTwiceRestores == [] C11_ToggleStep /\ [][C11_TogglePair]_vars

\* C11 witness: c has brought the second of two tasks back from completed to
\* not completed.
C11_Witness ==
    /\ LastCall("Normal", Char("c"))
    /\ selected_task = Some(1)
    /\ Len(tasks) = 2
    /\ prev.tasks[2].completed
    /\ ~tasks[2].completed

\* The task the last commit wrote: the appended one when the list grew, the
\* selected one otherwise.
Committed ==
    IF Len(tasks) > Len(prev.tasks) THEN tasks[Len(tasks)]
    ELSE tasks[unwrap(selected_task) + 1]

\* C17: Enter in Input or Edit mode always moves the buffer into
\* temp_description, clears input and enters DeadlineInput mode
\* (setting_deadline never blocks it), and the description the following Enter
\* commits is that buffer.
C17_EnterDefersBuffer ==
    /\ ~setting_deadline
    /\ (prev.mode \in {"Input", "Edit"} /\ key = Enter) =>
          /\ temp_description = prev.input
          /\ input = << >>
          /\ mode = "DeadlineInput"
    /\ mode = "DeadlineInput" => temp_description = flow.buffer
    /\ LastCall("DeadlineInput", Enter) =>
          /\ tasks # prev.tasks
          /\ Committed.description = prev.flow.buffer

\* C17 witness: Enter in Input mode while temp_description still holds the
\* description of an abandoned flow, which differs from the buffer.
C17_Witness ==
    /\ LastCall("Input", Enter)
    /\ prev.temp_description # << >>
    /\ prev.temp_description # prev.input
    /\ mode = "DeadlineInput"

Keywords == {Today, Tomorrow, ThisWeek, ThisMonth}

\* C18: in DeadlineInput mode the input buffer is empty or one of the four
\* keywords; it is empty when the mode is entered, whatever an earlier flow
\* chose, and Enter pressed on the empty buffer commits a task without a
\* deadline.
C18_DeadlineBuffer ==
    /\ mode = "DeadlineInput" => input \in Keywords \cup {<< >>}
    /\ (prev.mode \in {"Input", "Edit"} /\ mode = "DeadlineInput") => input = << >>
    /\ (LastCall("DeadlineInput", Enter) /\ prev.input = << >>) =>
          /\ tasks # prev.tasks
          /\ Committed.deadline = None

\* C18 witness: a flow committed without a keyword after a flow that chose
\* one.
C18_Witness ==
    /\ LastCall("DeadlineInput", Enter)
    /\ prev.input = << >>
    /\ Len(tasks) = 2
    /\ tasks[1].deadline # None
    /\ tasks[2].deadline = None
    /\ tasks[2].description # << >>

\* C19: a call changes the task list only as c in Normal mode, d in
\* DeleteConfirm mode or Enter in DeadlineInput mode, and the selection only as
\* Up or Down in Normal mode.
C19_Frame ==
    key # NoKey =>
        /\ tasks # prev.tasks =>
              \/ LastCall("Normal", Char("c"))
              \/ LastCall("DeleteConfirm", Char("d"))
              \/ LastCall("DeadlineInput", Enter)
        /\ selected_task # prev.selected_task =>
              prev.mode = "Normal" /\ key \in {KeyUp, KeyDown}

\* C19 witness: the last of two tasks has been deleted and the selection has
\* stayed where it was.
C19_Witness ==
    /\ LastCall("DeleteConfirm", Char("d"))
    /\ Len(prev.tasks) = 2
    /\ Len(tasks) = 1
    /\ selected_task = Some(1)

\* C20: a task leaves the list only in a call that handles d in DeleteConfirm
\* mode, right after a call that handled d in Normal mode; DeleteConfirm mode
\* is entered only by d in Normal mode and is left by the next key.
C20_ModeDeleteConfirm == mode = "DeleteConfirm" => LastCall("Normal", Char("d"))
C20_RemovalStep ==
    /\ Len(tasks') < Len(tasks) =>
          /\ mode = "DeleteConfirm"
          /\ key = Char("d")
          /\ key' = Char("d")
    /\ mode = "DeleteConfirm" => mode' = "Normal"
C20_DeleteNeedsTwoKeys == [] C20_ModeDeleteConfirm /\ [][C20_RemovalStep]_vars

\* C20 witness: d, d has removed a task.
C20_Witness ==
    /\ LastCall("DeleteConfirm", Char("d"))
    /\ Len(tasks) < Len(prev.tasks)
    /\ mode = "Normal"

\* The last calendar day of the month of a day.
last_day_of_month(day) ==
    LET c == civil_from_days(day)
    IN  days_from_civil(c[1], c[2], days_in_month(c[1], c[2]))

\* C15: on every day "This Month" resolves to the last calendar day of the
\* month at 00:00:00, never to none, and a task committed after 4 carries that
\* deadline.
C15_ThisMonthLastDay ==
    /\ (mode = "DeadlineInput" /\ input = ThisMonth) =>
          calculate_deadline(input, today) = Some(last_day_of_month(today))
    /\ (LastCall("DeadlineInput", Enter) /\ prev.input = ThisMonth) =>
          Committed.deadline = Some(last_day_of_month(today))

\* C16 as stated: "This Week" resolves to a Sunday that is not before today
\* and at most 7 days after it.
C16_ThisWeekSunday ==
    (LastCall("DeadlineInput", Enter) /\ prev.input = ThisWeek) =>
        /\ is_some(Committed.deadline)
        /\ unwrap(Committed.deadline) % 7 = 0
        /\ unwrap(Committed.deadline) >= today
        /\ unwrap(Committed.deadline) <= today + 7

\* C16, amended: "This Week" resolves to the Saturday that ends the week begun
\* on Sunday: a Saturday, not before today and at most 6 days after it.
C16_ThisWeekSaturday ==
    (LastCall("DeadlineInput", Enter) /\ prev.input = ThisWeek) =>
        /\ is_some(Committed.deadline)
        /\ unwrap(Committed.deadline) % 7 = 6
        /\ unwrap(Committed.deadline) >= today
        /\ unwrap(Committed.deadline) <= today + 6

\* C16 witness: on a Sunday a task was committed with "This Week".
C16_Witness ==
    /\ LastCall("DeadlineInput", Enter)
    /\ prev.input = ThisWeek
    /\ today % 7 = 0
    /\ Committed.deadline = Some(today + 6)

\* A run has just loaded what the run before it saved: no key has been handled
\* since that save, and the file could be opened.
LoadedAfterSave ==
    /\ pc = "loop"
    /\ key = NoKey
    /\ is_some(saved)
    /\ load_result.io = "ok"

\* C12: loading the file a save wrote succeeds and yields exactly the tasks
\* that were not completed at the save, in their order, with description and
\* deadline as they were; no completed task is loaded.
C12_SaveLoadRoundTrip ==
    LoadedAfterSave =>
        /\ load_result.result = "Ok"
        /\ tasks = SelectSeq(unwrap(saved), LAMBDA t : ~t.completed)
        /\ \A i \in 1..Len(tasks) : ~tasks[i].completed

\* A list of a completed task and an open task with a deadline was saved and
\* loaded back.
C12_Witness ==
    /\ LoadedAfterSave
    /\ Len(unwrap(saved)) = 2
    /\ unwrap(saved)[1].completed
    /\ ~unwrap(saved)[2].completed
    /\ is_some(unwrap(saved)[2].deadline)
    /\ Len(tasks) = 1

\* load_tasks has returned and no key has been handled since.
JustLoaded == load_result.result # "None" /\ key = NoKey /\ pc = "loop"

\* The file names no list of tasks.
malformed(f) == f # Missing /\ from_reader(f)[1] = "Err"

\* main leaves load_tasks for the loop.
C13_LoopEntered == pc = "load" => pc' = "loop"

C13_MissingSucceeds ==
    (JustLoaded /\ load_result.found = Missing) =>
        /\ load_result.result = "Ok"
        /\ tasks = << >>
        /\ file = Json(<< >>)

C13_MalformedReported ==
    (JustLoaded /\ malformed(load_result.found)) =>
        /\ load_result.result = "Err"
        /\ tasks = << >>

\* C13 as stated: loading never aborts the program; a missing file makes load
\* succeed with an empty list and leaves a file holding an empty array; a
\* malformed file makes load fail with the list still empty and the loop
\* entered.
C13_LoadNeverAborts ==
    /\ [] (C13_MissingSucceeds /\ C13_MalformedReported)
    /\ [][C13_LoopEntered]_vars

\* C13, amended: loading never aborts the program. A missing file that can be
\* created and written makes load succeed with an empty list and then holds an
\* empty array; a missing file that cannot be created or written, and a
\* malformed file, make load fail with the list still empty. The loop is
\* entered in every case.
C13_LoadNeverAbortsIfCreated ==
    /\ [] /\ (JustLoaded /\ load_result.found = Missing /\ load_result.io = "ok") =>
                (load_result.result = "Ok" /\ tasks = << >> /\ file = Json(<< >>))
          /\ (JustLoaded /\ load_result.found = Missing /\ load_result.io # "ok") =>
                (load_result.result = "Err" /\ tasks = << >> /\ file # Json(<< >>))
          /\ C13_MalformedReported
    /\ [][C13_LoopEntered]_vars

\* A missing file could not be created: load has failed, the list is empty
\* and the loop is entered.
C13_Witness ==
    /\ JustLoaded
    /\ load_result.found = Missing
    /\ load_result.io = "create_failed"
    /\ load_result.result = "Err"
    /\ tasks = << >>

\* C14: once the terminal is initialised, main ends only after clearing the
\* screen, resetting the cursor and showing the cursor, in that order, also
\* when the save on exit fails and when a draw in the loop fails.
C14_ExitRestoresTerminal ==
    (pc \in Exits /\ term.initialised) =>
        term.restored = << "clear", "set_cursor", "show_cursor" >>
====
